---- MODULE Spec2Model ----
(***************************************************************************)
(* The tree-pattern query and join engine of wiktionary/collection/        *)
(* collect.py: search_values (pattern evaluation), consolidate_results     *)
(* (join on shared iteration variables) and search_triples (one pattern    *)
(* group applied to one document).                                         *)
(*                                                                         *)
(* Representation.                                                         *)
(*   - A JSON key, and a pattern segment, is a TLA+ string.                *)
(*   - A pattern (a Python str such as 'forms/N/form') is the sequence of  *)
(*     its tokens <<"forms", "/", "N", "/", "form">>: the delimiter and    *)
(*     the maximal runs between delimiters.  The empty str is <<>>.        *)
(*   - A JSON string value (a text) is the sequence of its characters,     *)
(*     each a one-symbol string; the characters outside ASCII are named    *)
(*     (LRM, RLM, ACUTE, EACUTE, YA, TABCH).                               *)
(*   - A document node is a record tagged by t: "str", "none", "num",      *)
(*     "list" or "dict".                                                   *)
(*   - A raised exception is the name of its class in the field exc; ""    *)
(*     is a normal return.  warn(...) appends the node it reports.         *)
(*     Assertions are enabled (the interpreter runs without -O).           *)
(***************************************************************************)
EXTENDS Integers, Sequences, FiniteSets, TLC

VARIABLES pc, data, pattern, silently_ignore_none, queries, results,
          patterns, is_ipa, returned, warnings, raised

vars == <<pc, data, pattern, silently_ignore_none, queries, results,
          patterns, is_ipa, returned, warnings, raised>>

(***************************************************************************)
(* Bounds of the model.                                                    *)
(***************************************************************************)
\* Longest list of a generated document.
MaxLen == 2

(***************************************************************************)
(* Program constants.                                                      *)
(***************************************************************************)
MAX_NON_COMBINING_LENGTH == 20

SEARCH_PATTERN_DELIMITER == "/"

(***************************************************************************)
(* Document nodes (the values json.loads returns).                         *)
(***************************************************************************)
Str(text) == [t |-> "str", s |-> text]

None == [t |-> "none"]

\* A number or a boolean: a scalar that is neither a str nor None.
Num == [t |-> "num"]

List(items) == [t |-> "list", items |-> items]

Dict(fields) == [t |-> "dict", fields |-> fields]

IsStr(node) == node.t = "str"

IsList(node) == node.t = "list"

IsDict(node) == node.t = "dict"

IsNone(node) == node.t = "none"

(***************************************************************************)
(* str.split(SEARCH_PATTERN_DELIMITER) on a pattern's tokens: one segment  *)
(* per delimiter plus one, so the empty pattern has the one segment "".    *)
(***************************************************************************)
RECURSIVE Split(_)
Split(p) ==
    IF p = <<>> THEN <<"">>
    ELSE LET rest == Split(Tail(p))
         IN  IF Head(p) = SEARCH_PATTERN_DELIMITER
             THEN <<"">> \o rest
             ELSE <<Head(p) \o rest[1]>> \o Tail(rest)

\* The one-character strings str.isupper() accepts (ASCII part).
UpperChars ==
    {"A", "B", "C", "D", "E", "F", "G", "H", "I", "J", "K", "L", "M",
     "N", "O", "P", "Q", "R", "S", "T", "U", "V", "W", "X", "Y", "Z"}

\* The same letters in sorted() order.
UpperOrder ==
    <<"A", "B", "C", "D", "E", "F", "G", "H", "I", "J", "K", "L", "M",
      "N", "O", "P", "Q", "R", "S", "T", "U", "V", "W", "X", "Y", "Z">>

\* is_variable_name, had it not asked for an uppercase letter.
is_variable_name_any_case(text) == Len(text) = 1

is_variable_name(text) == Len(text) = 1 /\ text \in UpperChars

(***************************************************************************)
(* search_values.  An outcome is [res, warns, exc]: the SearchResults      *)
(* returned (each [value, bindings]), the nodes warned about in order,     *)
(* and the exception raised ("" for none; res is then not returned).       *)
(***************************************************************************)
Returns(res, warns) == [res |-> res, warns |-> warns, exc |-> ""]

Raises(exc, warns) == [res |-> <<>>, warns |-> warns, exc |-> exc]

\* Bind, had the comprehension counted from one: enumerate(node, 1).
BindFromOne(bindings, key, index) == (key :> (index + 1)) @@ bindings

\* Bind, had the comprehension passed {key: index} alone.
BindOnlyKey(bindings, key, index) == (key :> index)

\* {**bindings, key: index}
Bind(bindings, key, index) == (key :> index) @@ bindings

\* WarnsAbout, had it silenced None whatever the caller passed.
WarnsAboutUnlessNone(node, silent) == ~IsNone(node)

\* The guard of warn(): not (silently_ignore_none and node is None).
WarnsAbout(node, silent) == ~(silent /\ IsNone(node))

\* The else branch of `if path`: the node the pattern ends at.
SearchTerminal(node, bindings, silent) ==
    IF ~IsStr(node)
    THEN Returns(<<>>, IF WarnsAbout(node, silent) THEN <<node>> ELSE <<>>)
    ELSE Returns(<<[value |-> node.s, bindings |-> bindings]>>, <<>>)

\* HasKey, had it not asked whether the key is in the dict.
HasKeyOfAnyDict(node, key) == IsDict(node)

\* isinstance(node, dict) and key in node
HasKey(node, key) == IsDict(node) /\ key \in DOMAIN node.fields

RECURSIVE search_recursively(_, _, _, _)
RECURSIVE SearchItems(_, _, _, _, _, _)

\* The comprehension over enumerate(node), from the i-th item on.
SearchItems(key, path_tail, items, i, bindings, silent) ==
    IF i > Len(items) THEN Returns(<<>>, <<>>)
    ELSE LET r == search_recursively(path_tail, items[i],
                                     Bind(bindings, key, i - 1), silent)
         IN  IF r.exc # "" THEN r
             ELSE LET rest == SearchItems(key, path_tail, items, i + 1,
                                          bindings, silent)
                  IN  IF rest.exc # ""
                      THEN Raises(rest.exc, r.warns \o rest.warns)
                      ELSE Returns(r.res \o rest.res, r.warns \o rest.warns)

search_recursively(path, node, bindings, silent) ==
    IF path # <<>>
    THEN LET key == Head(path)
             path_tail == Tail(path)
         IN  IF is_variable_name(key)
             THEN IF key \in DOMAIN bindings
                  THEN Raises("AssertionError", <<>>)
                  ELSE IF IsList(node)
                       THEN SearchItems(key, path_tail, node.items, 1,
                                        bindings, silent)
                       ELSE Returns(<<>>, <<>>)
             ELSE IF HasKey(node, key)
                  THEN IF key \notin DOMAIN node.fields
                       THEN Raises("KeyError", <<>>)  \* node[key]
                       ELSE search_recursively(path_tail, node.fields[key],
                                               bindings, silent)
                  ELSE Returns(<<>>, <<>>)
    ELSE SearchTerminal(node, bindings, silent)

search_values(p, d, silent) == search_recursively(Split(p), d, <<>>, silent)

(***************************************************************************)
(* consolidate_results.  An outcome is [res, warns, exc] with res the      *)
(* ConsolidatedResults (a sequence of tuples of values).                   *)
(***************************************************************************)
\* sorted(...) of a set of variable names.
Sorted(variables) == SelectSeq(UpperOrder, LAMBDA v : v \in variables)

\* Whether bindings[variable] raises KeyError for a variable of the list.
ExtractRaises(bindings, variables) ==
    \E i \in 1..Len(variables) : variables[i] \notin DOMAIN bindings

\* extract_values: the tuple of the bindings of the variables, in order.
extract_values(bindings, variables) ==
    [i \in 1..Len(variables) |-> bindings[variables[i]]]

\* set(bindings.keys()) of the FIRST result of a position.
PositionVariables(rs, position) == DOMAIN rs[position][1].bindings

\* `cumulative` when the loop reaches the position.
RECURSIVE Cumulative(_, _)
Cumulative(rs, position) ==
    IF position = 1 THEN {}
    ELSE Cumulative(rs, position - 1) \cup PositionVariables(rs, position - 1)

\* Intersection, had `cumulative` never been updated.
IntersectionOfNothing(rs, position) == <<>>

\* intersections[position]
Intersection(rs, position) ==
    Sorted(Cumulative(rs, position) \cap PositionVariables(rs, position))

\* Whether building the index of a position raises KeyError.
IndexRaises(rs, position) ==
    \E j \in 1..Len(rs[position]) :
        ExtractRaises(rs[position][j].bindings, Intersection(rs, position))

\* indices[position]: values of the shared variables -> results, in order.
Index(rs, position) ==
    LET variables == Intersection(rs, position)
        keys == {extract_values(rs[position][j].bindings, variables) :
                     j \in 1..Len(rs[position])}
    IN  [k \in keys |->
            SelectSeq(rs[position],
                      LAMBDA r : extract_values(r.bindings, variables) = k)]

\* indices[position][values] of a defaultdict(list).
Lookup(index, values) ==
    IF values \in DOMAIN index THEN index[values] ELSE <<>>

RECURSIVE consolidate_recursively(_, _, _, _, _, _)
RECURSIVE ConsolidateBucket(_, _, _, _, _, _, _, _)

\* The for loop over a bucket, from its i-th result on.
ConsolidateBucket(n, indices, intersections, position, current, bindings, bucket, i) ==
    IF i > Len(bucket) THEN Returns(<<>>, <<>>)
    ELSE LET r == consolidate_recursively(
                      n, indices, intersections, position + 1,
                      Append(current, bucket[i].value),
                      bucket[i].bindings @@ bindings)
         IN  IF r.exc # "" THEN r
             ELSE LET rest == ConsolidateBucket(n, indices, intersections,
                                                position, current, bindings,
                                                bucket, i + 1)
                  IN  IF rest.exc # "" THEN rest
                      ELSE Returns(r.res \o rest.res, <<>>)

\* position counts from 1 here; n is len(results).
consolidate_recursively(n, indices, intersections, position, current, bindings) ==
    IF position = n + 1 THEN Returns(<<current>>, <<>>)
    ELSE IF ExtractRaises(bindings, intersections[position])
         THEN Raises("KeyError", <<>>)
         ELSE ConsolidateBucket(
                  n, indices, intersections, position, current, bindings,
                  Lookup(indices[position],
                         extract_values(bindings, intersections[position])),
                  1)

\* SomeEmpty, had the code tested `not results`.
SomeEmptyOfTheTuple(rs) == rs = <<>>

\* `not all(results)`: some position holds no result.
SomeEmpty(rs) == \E i \in 1..Len(rs) : rs[i] = <<>>

\* The exception of the loop that builds the indices, from a position on:
\* unpacking `(_, bindings), *_` of an empty result list raises ValueError.
RECURSIVE BuildRaises(_, _)
BuildRaises(rs, position) ==
    IF position > Len(rs) THEN ""
    ELSE IF rs[position] = <<>> THEN "ValueError"
    ELSE IF IndexRaises(rs, position) THEN "KeyError"
    ELSE BuildRaises(rs, position + 1)

consolidate_results(rs) ==
    IF SomeEmpty(rs) THEN Returns(<<>>, <<>>)
    ELSE IF BuildRaises(rs, 1) # ""
         THEN Raises(BuildRaises(rs, 1), <<>>)
         ELSE consolidate_recursively(
                  Len(rs),
                  [position \in 1..Len(rs) |-> Index(rs, position)],
                  [position \in 1..Len(rs) |-> Intersection(rs, position)],
                  1, <<>>, <<>>)

(***************************************************************************)
(* Texts.  The characters the model tells apart, by what the code asks of  *)
(* them: \s and str.strip() (whitespace), the two directional marks,       *)
(* unicodedata.combining, the NFD decomposition, and LATIN_PATTERN.        *)
(***************************************************************************)
LRM == "LRM"

RLM == "RLM"

\* U+0301, a combining mark.
ACUTE == "ACUTE"

\* U+00E9, whose NFD form is e followed by U+0301.
EACUTE == "EACUTE"

\* U+044F, a letter outside LATIN_PATTERN.
YA == "YA"

TABCH == "TAB"

Whitespace == {" ", TABCH}

Marks == {LRM, RLM}

LowerChars ==
    {"a", "b", "c", "d", "e", "f", "g", "h", "i", "j", "k", "l", "m",
     "n", "o", "p", "q", "r", "s", "t", "u", "v", "w", "x", "y", "z"}

\* re.fullmatch(LATIN_PATTERN, character): [a-z -] ignoring case.
IsLatin(c) == c \in LowerChars \cup UpperChars \cup {" ", "-"}

\* unicodedata.combining(character) is not 0.
IsCombining(c) == c = ACUTE

\* unicodedata.normalize(NORMALIZATION_FORM, text)
RECURSIVE NFD(_)
NFD(text) ==
    IF text = <<>> THEN <<>>
    ELSE (IF Head(text) = EACUTE THEN <<"e", ACUTE>> ELSE <<Head(text)>>)
         \o NFD(Tail(text))

\* re.sub of a leading run of the characters by ''
RECURSIVE DropLeading(_, _)
DropLeading(text, chars) ==
    IF text # <<>> /\ Head(text) \in chars
    THEN DropLeading(Tail(text), chars)
    ELSE text

\* re.sub of a trailing run of the characters by ''
RECURSIVE DropTrailing(_, _)
DropTrailing(text, chars) ==
    IF text # <<>> /\ text[Len(text)] \in chars
    THEN DropTrailing(SubSeq(text, 1, Len(text) - 1), chars)
    ELSE text

\* re.sub('\s+', ' ', text)
RECURSIVE CollapseWhitespace(_)
CollapseWhitespace(text) ==
    IF text = <<>> THEN <<>>
    ELSE IF Head(text) \in Whitespace
         THEN <<" ">> \o CollapseWhitespace(DropLeading(text, Whitespace))
         ELSE <<Head(text)>> \o CollapseWhitespace(Tail(text))

\* str.strip()
Strip(text) == DropTrailing(DropLeading(text, Whitespace), Whitespace)

normalize(text) ==
    Strip(CollapseWhitespace(DropTrailing(DropLeading(NFD(text), Marks),
                                          Marks)))

\* The index of the first ")" of the text from position i on, 0 if none.
RECURSIVE FirstClosing(_, _)
FirstClosing(text, i) ==
    IF i > Len(text) THEN 0
    ELSE IF text[i] = ")" THEN i
    ELSE FirstClosing(text, i + 1)

\* re.sub(' ?\([^)]*\)', '', word), scanning from position i.
RECURSIVE DropParenthesized(_, _)
DropParenthesized(word, i) ==
    IF i > Len(word) THEN <<>>
    ELSE LET open == IF word[i] = " " /\ i < Len(word) /\ word[i + 1] = "("
                     THEN i + 1
                     ELSE IF word[i] = "(" THEN i ELSE 0
             close == IF open = 0 THEN 0 ELSE FirstClosing(word, open + 1)
         IN  IF close # 0
             THEN DropParenthesized(word, close + 1)
             ELSE <<word[i]>> \o DropParenthesized(word, i + 1)

\* The language with an entry in EXTRA_WORD_NORMALIZATION_RULES.
JA == <<"j", "a">>

extra_normalize_word(word, language) ==
    IF language = JA THEN DropParenthesized(word, 1) ELSE word

count_non_combining_characters(text) ==
    Cardinality({i \in 1..Len(text) : ~IsCombining(text[i])})

\* entry is <<language, word, romanization>>.
is_valid_entry(entry, ipa) ==
    /\ entry[1] # <<>> /\ entry[2] # <<>> /\ entry[3] # <<>>
    /\ \/ ipa
       \/ /\ \A text \in {entry[2], entry[3]} :
                 count_non_combining_characters(text)
                     <= MAX_NON_COMBINING_LENGTH
          /\ ~(\A i \in 1..Len(entry[2]) :
                   IsCombining(entry[2][i]) \/ IsLatin(entry[2][i]))

(***************************************************************************)
(* search_triples.  A pattern group is the tuple <<language, word,        *)
(* romanization, conditions>>, each condition <<pattern, required>>.       *)
(* An outcome is [res, warns, exc] with res the list of entries.           *)
(***************************************************************************)
\* Filtered, had the comprehension no condition.
FilteredNothing(rs, required) == rs

\* [(value, bindings) for ... in search_values(...) if value == required]
Filtered(rs, required) == SelectSeq(rs, LAMBDA r : r.value = required)

\* condition_results, from the i-th condition on: res holds one filtered
\* result list per condition.
RECURSIVE ConditionResults(_, _, _)
ConditionResults(conditions, d, i) ==
    IF i > Len(conditions) THEN Returns(<<>>, <<>>)
    ELSE LET r == search_values(conditions[i][1], d, FALSE)
         IN  IF r.exc # "" THEN r
             ELSE LET rest == ConditionResults(conditions, d, i + 1)
                  IN  IF rest.exc # ""
                      THEN Raises(rest.exc, r.warns \o rest.warns)
                      ELSE Returns(<<Filtered(r.res, conditions[i][2])>>
                                       \o rest.res,
                                   r.warns \o rest.warns)

\* The entry of one consolidated tuple, the conditions' values dropped.
EntryOf(c) ==
    LET language == c[Len(c) - 2]
        word == c[Len(c) - 1]
        romanization == c[Len(c)]
    IN  <<language, extra_normalize_word(normalize(word), language),
          normalize(romanization)>>

ValidEntries(consolidated, ipa) ==
    LET entries == [i \in 1..Len(consolidated) |-> EntryOf(consolidated[i])]
    IN  SelectSeq(entries, LAMBDA entry : is_valid_entry(entry, ipa))

\* The arguments of consolidate_results are evaluated left to right, all of
\* them before the call.
search_triples(group, d, ipa) ==
    LET conds == ConditionResults(group[4], d, 1)
        lang == search_values(group[1], d, TRUE)
        word == search_values(group[2], d, FALSE)
        roman == search_values(group[3], d, FALSE)
    IN  IF conds.exc # "" THEN conds
        ELSE IF lang.exc # ""
        THEN Raises(lang.exc, conds.warns \o lang.warns)
        ELSE IF word.exc # ""
        THEN Raises(word.exc, conds.warns \o lang.warns \o word.warns)
        ELSE LET w == conds.warns \o lang.warns \o word.warns \o roman.warns
             IN  IF roman.exc # "" THEN Raises(roman.exc, w)
                 ELSE LET c == consolidate_results(
                                   conds.res \o <<lang.res, word.res,
                                                  roman.res>>)
                      IN  IF c.exc # "" THEN Raises(c.exc, w)
                          ELSE Returns(ValidEntries(c.res, ipa), w)

(***************************************************************************)
(* Documents.  The documents of a set of patterns are the well-formed      *)
(* ones (every key the patterns name is present, every list the patterns   *)
(* iterate has the same length, one of 0..MaxLen, every node a pattern    *)
(* ends at is a str) and those with one deviation: one node replaced by a node of     *)
(* another shape or by another text, or one key absent.                    *)
(* A path is [segs, req]: the segments still to match and, for an          *)
(* equality condition, the one required text (else none).                  *)
(***************************************************************************)
Digits == <<"0", "1", "2", "3", "4", "5", "6", "7", "8", "9">>

Digit(i) == Digits[(i % 10) + 1]

\* The text of the well-formed leaf at a position: distinct per position,
\* with a parenthesized reading as the words of 'ja' records have.
LeafText(pos) == <<"w">> \o pos \o <<" ", "(", "k", ")">>

LongText == [i \in 1..(MAX_NON_COMBINING_LENGTH + 1) |-> YA]

MessyText == <<LRM, YA, TABCH, " ", "(", "a", ")", EACUTE, " ", RLM>>

AltTexts == {<<>>, JA, MessyText, LongText}

Junk(lits) ==
    {None, Num, List(<<>>), Dict(<<>>)}
        \cup {Str(text) : text \in AltTexts}
        \cup {Str(lits[i]) : i \in 1..Len(lits)}

PathOf(p, req) == [segs |-> Split(p), req |-> req]

EndsHere(paths) == \E p \in paths : p.segs = <<>>

VarTails(paths) ==
    {[segs |-> Tail(p.segs), req |-> p.req] :
         p \in {q \in paths : q.segs # <<>> /\ is_variable_name(Head(q.segs))}}

LitHeads(paths) ==
    {Head(p.segs) :
         p \in {q \in paths : q.segs # <<>> /\ ~is_variable_name(Head(q.segs))}}

LitTails(paths, key) ==
    {[segs |-> Tail(p.segs), req |-> p.req] :
         p \in {q \in paths : q.segs # <<>> /\ Head(q.segs) = key}}

\* The text of a well-formed leaf: the required texts of the conditions
\* that end here, then a text of its own, in turn by the last list index.
EndText(paths, lits, pos, last) ==
    LET cands == SelectSeq(lits, LAMBDA text :
                     \E p \in paths : p.segs = <<>> /\ p.req = <<text>>)
                 \o <<LeafText(pos)>>
    IN  cands[(last % Len(cands)) + 1]

RECURSIVE WellFormed(_, _, _, _, _)
RECURSIVE Deviating(_, _, _, _, _)
RECURSIVE ItemsWith(_, _, _, _, _, _)
RECURSIVE FieldsWith(_, _, _, _, _, _, _)

\* The lists of the first n items of a list of len items; the item at
\* index dev (if any, dev >= 0) deviates.
ItemsWith(tails, lits, pos, len, n, dev) ==
    IF n = 0 THEN {<<>>}
    ELSE LET p == pos \o <<Digit(n - 1)>>
             last == IF n - 1 = dev
                     THEN Deviating(tails, lits, p, n - 1, len)
                     ELSE WellFormed(tails, lits, p, n - 1, len)
         IN  {Append(items, item) :
                  items \in ItemsWith(tails, lits, pos, len, n - 1, dev),
                  item \in last}

\* The field maps with the keys; the value of the key of dev (if any)
\* deviates.
FieldsWith(paths, lits, pos, last, len, keys, dev) ==
    IF keys = {} THEN {<<>>}
    ELSE LET key == CHOOSE k \in keys : TRUE
             p == pos \o <<Digit(Cardinality(keys) - 1)>>
             values == IF key \in dev
                       THEN Deviating(LitTails(paths, key), lits, p, last, len)
                       ELSE WellFormed(LitTails(paths, key), lits, p, last, len)
         IN  {(key :> value) @@ fields :
                  value \in values,
                  fields \in FieldsWith(paths, lits, pos, last, len,
                                        keys \ {key}, dev)}

\* The well-formed nodes at a position; every list has len items.
WellFormed(paths, lits, pos, last, len) ==
    (IF EndsHere(paths) THEN {Str(EndText(paths, lits, pos, last))} ELSE {})
    \cup (IF VarTails(paths) # {}
          THEN {List(items) :
                    items \in ItemsWith(VarTails(paths), lits, pos, len,
                                        len, -1)}
          ELSE {})
    \cup (IF LitHeads(paths) # {}
          THEN {Dict(fields) :
                    fields \in FieldsWith(paths, lits, pos, last, len,
                                          LitHeads(paths), {})}
          ELSE {})

\* The nodes at a position with one deviation, here or below.
Deviating(paths, lits, pos, last, len) ==
    Junk(lits)
    \cup (IF VarTails(paths) # {}
          THEN {List(items) :
                    items \in UNION {ItemsWith(VarTails(paths), lits, pos,
                                               len, len, dev) :
                                         dev \in 0..(len - 1)}}
          ELSE {})
    \cup (IF LitHeads(paths) # {}
          THEN {Dict(fields) :
                    fields \in UNION (
                        {FieldsWith(paths, lits, pos, last, len,
                                    LitHeads(paths), {key}) :
                             key \in LitHeads(paths)}
                        \cup
                        {FieldsWith(paths, lits, pos, last, len,
                                    LitHeads(paths) \ {key}, {}) :
                             key \in LitHeads(paths)})}
          ELSE {})

Documents(paths, lits) ==
    UNION {WellFormed(paths, lits, <<>>, 0, len)
               \cup Deviating(paths, lits, <<>>, 0, len) : len \in 0..MaxLen}

(***************************************************************************)
(* The configured pattern groups, token by token.                          *)
(***************************************************************************)
ROMANIZATION_TAG == <<"r", "o", "m", "a", "n", "i", "z", "a", "t", "i", "o", "n">>

CANONICAL_TAG == <<"c", "a", "n", "o", "n", "i", "c", "a", "l">>

IPA_PATTERNS ==
    <<
      <<<<"lang_code">>,
        <<"word">>,
        <<"sounds", "/", "N", "/", "ipa">>,
        <<>>>>,
      <<<<"lang_code">>,
        <<"forms", "/", "N", "/", "form">>,
        <<"forms", "/", "N", "/", "ipa">>,
        <<>>>>
    >>

ROMANIZATION_PATTERNS ==
    <<
      <<<<"lang_code">>,
        <<"forms", "/", "N", "/", "form">>,
        <<"forms", "/", "N", "/", "roman">>,
        <<>>>>,
      <<<<"lang_code">>,
        <<"form_of", "/", "N", "/", "word">>,
        <<"form_of", "/", "N", "/", "roman">>,
        <<>>>>,
      <<<<"lang_code">>,
        <<"abbreviations", "/", "N", "/", "word">>,
        <<"abbreviations", "/", "N", "/", "roman">>,
        <<>>>>,
      <<<<"lang_code">>,
        <<"synonyms", "/", "N", "/", "word">>,
        <<"synonyms", "/", "N", "/", "roman">>,
        <<>>>>,
      <<<<"lang_code">>,
        <<"antonyms", "/", "N", "/", "word">>,
        <<"antonyms", "/", "N", "/", "roman">>,
        <<>>>>,
      <<<<"lang_code">>,
        <<"hyponyms", "/", "N", "/", "word">>,
        <<"hyponyms", "/", "N", "/", "roman">>,
        <<>>>>,
      <<<<"lang_code">>,
        <<"hypernyms", "/", "N", "/", "word">>,
        <<"hypernyms", "/", "N", "/", "roman">>,
        <<>>>>,
      <<<<"lang_code">>,
        <<"coordinate_terms", "/", "N", "/", "word">>,
        <<"coordinate_terms", "/", "N", "/", "roman">>,
        <<>>>>,
      <<<<"lang_code">>,
        <<"meronyms", "/", "N", "/", "word">>,
        <<"meronyms", "/", "N", "/", "roman">>,
        <<>>>>,
      <<<<"lang_code">>,
        <<"holonyms", "/", "N", "/", "word">>,
        <<"holonyms", "/", "N", "/", "roman">>,
        <<>>>>,
      <<<<"lang_code">>,
        <<"troponyms", "/", "N", "/", "word">>,
        <<"troponyms", "/", "N", "/", "roman">>,
        <<>>>>,
      <<<<"lang_code">>,
        <<"derived", "/", "N", "/", "word">>,
        <<"derived", "/", "N", "/", "roman">>,
        <<>>>>,
      <<<<"lang_code">>,
        <<"related", "/", "N", "/", "word">>,
        <<"related", "/", "N", "/", "roman">>,
        <<>>>>,
      <<<<"lang_code">>,
        <<"proverbs", "/", "N", "/", "word">>,
        <<"proverbs", "/", "N", "/", "roman">>,
        <<>>>>,
      <<<<"lang_code">>,
        <<"senses", "/", "N", "/", "examples", "/", "M", "/", "text">>,
        <<"senses", "/", "N", "/", "examples", "/", "M", "/", "roman">>,
        <<>>>>,
      <<<<"lang_code">>,
        <<"senses", "/", "N", "/", "alt_of", "/", "M", "/", "word">>,
        <<"word">>,
        <<<<<<"senses", "/", "N", "/", "tags", "/", "T">>, ROMANIZATION_TAG>>>>>>,
      <<<<"lang_code">>,
        <<"word">>,
        <<"forms", "/", "N", "/", "form">>,
        <<<<<<"forms", "/", "N", "/", "tags", "/", "T">>, ROMANIZATION_TAG>>>>>>,
      <<<<"lang_code">>,
        <<"forms", "/", "A", "/", "form">>,
        <<"forms", "/", "B", "/", "form">>,
        <<<<<<"forms", "/", "A", "/", "tags", "/", "C">>, CANONICAL_TAG>>, <<<<"forms", "/", "B", "/", "tags", "/", "D">>, ROMANIZATION_TAG>>>>>>,
      <<<<"translations", "/", "N", "/", "code">>,
        <<"translations", "/", "N", "/", "word">>,
        <<"translations", "/", "N", "/", "roman">>,
        <<>>>>
    >>

(***************************************************************************)
(* Inputs.                                                                 *)
(***************************************************************************)
\* Patterns for search_values alone: no segment, literal keys, variables,
\* a variable twice, empty segments, one-letter and two-letter keys.
TestPatterns ==
    {<<>>,
     <<"a">>,
     <<"a", "/", "b">>,
     <<"N">>,
     <<"a", "/", "N">>,
     <<"N", "/", "a">>,
     <<"N", "/", "M">>,
     <<"N", "/", "N">>,
     <<"a", "/", "N", "/", "b", "/", "N">>,
     <<"/">>,
     <<"n">>,
     <<"AB", "/", "a">>}

TestDocuments ==
    UNION {Documents({PathOf(p, <<>>)}, <<>>) : p \in TestPatterns}

\* Patterns whose results consolidate_results joins: they share N, or M,
\* or both, or nothing.
QueryPool ==
    {<<"a", "/", "N">>,
     <<"b", "/", "N", "/", "M">>,
     <<"c", "/", "M">>}

\* Most result lists of one call of consolidate_results.
MaxInputs == 3

RECURSIVE QueryLists(_)
QueryLists(n) ==
    IF n = 0 THEN {<<>>}
    ELSE {Append(qs, q) : qs \in QueryLists(n - 1), q \in QueryPool}

QueryDocuments ==
    Documents({PathOf(p, <<>>) : p \in QueryPool}, <<>>)

\* A group in the shape of the configured ones with a condition, on short
\* keys: the forms that carry the tag.
PLURAL_TAG == <<"p", "l", "u", "r", "a", "l">>

TaggedForms ==
    <<<<"lang_code">>,
      <<"forms", "/", "N", "/", "form">>,
      <<"word">>,
      <<<<<<"forms", "/", "N", "/", "tags", "/", "M">>, PLURAL_TAG>>>>>>

Range(seq) == {seq[i] : i \in 1..Len(seq)}

ConfiguredGroups == Range(IPA_PATTERNS) \cup Range(ROMANIZATION_PATTERNS)

\* The paths of a group: its three patterns and its conditions.
GroupPaths(group) ==
    {PathOf(group[i], <<>>) : i \in 1..3}
        \cup {PathOf(c[1], <<c[2]>>) : c \in Range(group[4])}

\* The required texts of the conditions of a group, in order.
GroupTags(group) == [i \in 1..Len(group[4]) |-> group[4][i][2]]

GroupDocuments(group) == Documents(GroupPaths(group), GroupTags(group))

NoGroup == <<<<>>, <<>>, <<>>, <<>>>>

(***************************************************************************)
(* One call of search_values.                                              *)
(***************************************************************************)
InitValues ==
    /\ pc = "search_values"
    /\ pattern \in TestPatterns
    /\ silently_ignore_none \in BOOLEAN
    /\ data \in TestDocuments
    /\ queries = <<>>
    /\ results = <<>>
    /\ patterns = NoGroup
    /\ is_ipa = FALSE
    /\ returned = <<>>
    /\ warnings = <<>>
    /\ raised = ""

SearchValues ==
    /\ pc = "search_values"
    /\ LET r == search_values(pattern, data, silently_ignore_none)
       IN  /\ returned' = r.res
           /\ warnings' = r.warns
           /\ raised' = r.exc
           /\ pc' = IF r.exc = "" THEN "returned" ELSE "raised"
    /\ UNCHANGED <<data, pattern, silently_ignore_none, queries, results,
                   patterns, is_ipa>>

SpecValues == InitValues /\ [][SearchValues]_vars

(***************************************************************************)
(* One call of consolidate_results on the results of some patterns over    *)
(* one document.                                                           *)
(***************************************************************************)
InitConsolidate ==
    /\ pc = "evaluate"
    /\ queries \in UNION {QueryLists(n) : n \in 1..MaxInputs}
    /\ data \in QueryDocuments
    /\ pattern = <<>>
    /\ silently_ignore_none = FALSE
    /\ results = <<>>
    /\ patterns = NoGroup
    /\ is_ipa = FALSE
    /\ returned = <<>>
    /\ warnings = <<>>
    /\ raised = ""

\* The arguments: search_values of each pattern, left to right.
RECURSIVE Evaluated(_, _, _)
Evaluated(qs, d, i) ==
    IF i > Len(qs) THEN Returns(<<>>, <<>>)
    ELSE LET r == search_values(qs[i], d, FALSE)
         IN  IF r.exc # "" THEN r
             ELSE LET rest == Evaluated(qs, d, i + 1)
                  IN  IF rest.exc # ""
                      THEN Raises(rest.exc, r.warns \o rest.warns)
                      ELSE Returns(<<r.res>> \o rest.res,
                                   r.warns \o rest.warns)

Evaluate ==
    /\ pc = "evaluate"
    /\ LET r == Evaluated(queries, data, 1)
       IN  /\ results' = r.res
           /\ warnings' = r.warns
           /\ raised' = r.exc
           /\ pc' = IF r.exc = "" THEN "consolidate_results" ELSE "raised"
    /\ UNCHANGED <<data, pattern, silently_ignore_none, queries, patterns,
                   is_ipa, returned>>

Consolidate ==
    /\ pc = "consolidate_results"
    /\ LET r == consolidate_results(results)
       IN  /\ returned' = r.res
           /\ raised' = r.exc
           /\ pc' = IF r.exc = "" THEN "returned" ELSE "raised"
    /\ UNCHANGED <<data, pattern, silently_ignore_none, queries, results,
                   patterns, is_ipa, warnings>>

NextConsolidate == Evaluate \/ Consolidate

SpecConsolidate == InitConsolidate /\ [][NextConsolidate]_vars

(***************************************************************************)
(* One call of search_triples, as run() makes it: is_ipa is True for the   *)
(* groups of IPA_PATTERNS and False for those of ROMANIZATION_PATTERNS.    *)
(***************************************************************************)
InitTriples ==
    /\ pc = "search_triples"
    /\ \/ patterns \in Range(IPA_PATTERNS) /\ is_ipa = TRUE
       \/ patterns \in Range(ROMANIZATION_PATTERNS) /\ is_ipa = FALSE
       \/ patterns = TaggedForms /\ is_ipa \in BOOLEAN
    /\ data \in GroupDocuments(patterns)
    /\ pattern = <<>>
    /\ silently_ignore_none = FALSE
    /\ queries = <<>>
    /\ results = <<>>
    /\ returned = <<>>
    /\ warnings = <<>>
    /\ raised = ""

SearchTriples ==
    /\ pc = "search_triples"
    /\ LET r == search_triples(patterns, data, is_ipa)
       IN  /\ returned' = r.res
           /\ warnings' = r.warns
           /\ raised' = r.exc
           /\ pc' = IF r.exc = "" THEN "returned" ELSE "raised"
    /\ UNCHANGED <<data, pattern, silently_ignore_none, queries, results,
                   patterns, is_ipa>>

SpecTriples == InitTriples /\ [][SearchTriples]_vars

(***************************************************************************)
(* Any of the calls.                                                       *)
(***************************************************************************)
Init == InitValues \/ InitConsolidate \/ InitTriples

Next == SearchValues \/ Evaluate \/ Consolidate \/ SearchTriples

Spec == Init /\ [][Next]_vars

(***************************************************************************)
(* What a pattern denotes, stated without the search: a pattern without    *)
(* empty segments reaches, for each assignment of list indices to its      *)
(* variable segments, at most one node of the document.                    *)
(***************************************************************************)
Segments(p) == SelectSeq(p, LAMBDA token : token # "/")

IsVariable(segment) == segment \in UpperChars

VariablesOf(p) == SelectSeq(Segments(p), IsVariable)

\* The node the segments lead to under the indices idx (one per variable
\* segment, in order): <<node>>, or <<>> when the path does not exist.
RECURSIVE Resolve(_, _, _)
Resolve(segs, node, idx) ==
    IF segs = <<>> THEN <<node>>
    ELSE IF IsVariable(Head(segs))
    THEN IF node.t = "list" /\ Head(idx) < Len(node.items)
         THEN Resolve(Tail(segs), node.items[Head(idx) + 1], Tail(idx))
         ELSE <<>>
    ELSE IF node.t = "dict" /\ Head(segs) \in DOMAIN node.fields
         THEN Resolve(Tail(segs), node.fields[Head(segs)], idx)
         ELSE <<>>

\* The tuples of k list indices, in lexicographic order.
RECURSIVE IndexTuples(_)
RECURSIVE Prefixed(_, _, _)
Prefixed(k, first, tuples) ==
    IF first >= MaxLen THEN <<>>
    ELSE [j \in 1..Len(tuples) |-> <<first>> \o tuples[j]]
         \o Prefixed(k, first + 1, tuples)

IndexTuples(k) ==
    IF k = 0 THEN <<<<>>>> ELSE Prefixed(k, 0, IndexTuples(k - 1))

RECURSIVE ReachedFrom(_, _, _, _)
ReachedFrom(p, d, tuples, j) ==
    IF j > Len(tuples) THEN <<>>
    ELSE LET vs == VariablesOf(p)
             node == Resolve(Segments(p), d, tuples[j])
             env == [v \in Range(vs) |->
                         tuples[j][CHOOSE i \in 1..Len(vs) : vs[i] = v]]
         IN  (IF node = <<>> THEN <<>>
              ELSE <<[node |-> node[1], bindings |-> env]>>)
             \o ReachedFrom(p, d, tuples, j + 1)

\* The nodes a pattern reaches in a document, each with its indices, in
\* the order of the document.
Reached(p, d) == ReachedFrom(p, d, IndexTuples(Len(VariablesOf(p))), 1)

\* Two environments give every variable they both bind the same index.
Agree(b1, b2) == \A v \in DOMAIN b1 \cap DOMAIN b2 : b1[v] = b2[v]

AgreesWithAll(b, chosen) ==
    \A i \in 1..Len(chosen) : Agree(b, chosen[i].bindings)

(***************************************************************************)
(* C1.  The naive nested loop over the result lists, first list slowest,   *)
(* keeping the combinations whose environments agree pairwise.             *)
(***************************************************************************)
RECURSIVE NaiveJoin(_, _, _)
RECURSIVE NaiveLoop(_, _, _, _)
NaiveLoop(rs, position, chosen, j) ==
    IF j > Len(rs[position]) THEN <<>>
    ELSE (IF AgreesWithAll(rs[position][j].bindings, chosen)
          THEN NaiveJoin(rs, position + 1, Append(chosen, rs[position][j]))
          ELSE <<>>)
         \o NaiveLoop(rs, position, chosen, j + 1)

NaiveJoin(rs, position, chosen) ==
    IF position > Len(rs)
    THEN <<[i \in 1..Len(chosen) |-> chosen[i].value]>>
    ELSE NaiveLoop(rs, position, chosen, 1)

RECURSIVE ProductOfLengths(_, _)
ProductOfLengths(rs, i) ==
    IF i > Len(rs) THEN 1 ELSE Len(rs[i]) * ProductOfLengths(rs, i + 1)

\* No variable is bound by the results of two positions.
NothingShared(rs) ==
    \A i, j \in 1..Len(rs) :
        i # j =>
            \A r1 \in Range(rs[i]), r2 \in Range(rs[j]) :
                DOMAIN r1.bindings \cap DOMAIN r2.bindings = {}

Consolidated == pc \in {"returned", "raised"} /\ results # <<>>

\* C1: on non-empty result lists of patterns over one document,
\* consolidate_results returns exactly the combinations of the naive nested
\* loop that agree on their shared variables, in its order and with its
\* multiplicity; with nothing shared, the full product.
C1_JoinIsNaiveLoop ==
    (Consolidated /\ \A i \in 1..Len(results) : results[i] # <<>>) =>
        /\ raised = ""
        /\ returned = NaiveJoin(results, 1, <<>>)
        /\ NothingShared(results) =>
               Len(returned) = ProductOfLengths(results, 1)

\* A join of three lists that share variables and drops some combinations.
C1_Witness ==
    /\ Consolidated
    /\ Len(results) = 3
    /\ ~NothingShared(results)
    /\ returned # <<>>
    /\ Len(returned) < ProductOfLengths(results, 1)

(***************************************************************************)
(* C2.                                                                     *)
(***************************************************************************)
\* C2: when one of the result lists is empty, at whichever position,
\* consolidate_results returns the empty list (and does not raise).
C2_EmptyInputEmptyOutput ==
    (Consolidated /\ \E i \in 1..Len(results) : Len(results[i]) = 0) =>
        raised = "" /\ returned = <<>>

\* The empty list is not the first, and the others are not empty.
C2_Witness ==
    /\ Consolidated
    /\ Len(results) = 3
    /\ results[1] # <<>> /\ results[2] # <<>> /\ results[3] = <<>>
    /\ returned = <<>>

(***************************************************************************)
(* C3.                                                                     *)
(***************************************************************************)
\* The str nodes a pattern reaches, as results; with a required text, only
\* those of that text.
Selected(p, d, required) ==
    LET strs == SelectSeq(Reached(p, d), LAMBDA r :
                    /\ r.node.t = "str"
                    /\ required # <<>> => r.node.s = required[1])
    IN  [i \in 1..Len(strs) |->
            [value |-> strs[i].node.s, bindings |-> strs[i].bindings]]

\* Per condition, then language, word and romanization.
SelectedOfGroup(group, d) ==
    [i \in 1..Len(group[4]) |->
        Selected(group[4][i][1], d, <<group[4][i][2]>>)]
    \o <<Selected(group[1], d, <<>>), Selected(group[2], d, <<>>),
         Selected(group[3], d, <<>>)>>

\* Some combination of one result per position, agreeing pairwise, has
\* the entry.
RECURSIVE SomeCombination(_, _, _, _)
SomeCombination(sel, position, chosen, entry) ==
    IF position > Len(sel)
    THEN EntryOf([i \in 1..Len(chosen) |-> chosen[i].value]) = entry
    ELSE \E r \in Range(sel[position]) :
             /\ AgreesWithAll(r.bindings, chosen)
             /\ SomeCombination(sel, position + 1, Append(chosen, r), entry)

TriplesReturned == pc = "returned" /\ patterns # NoGroup

\* C3: with equality conditions, every entry search_triples returns comes
\* from a combination in which each condition pattern reaches its required
\* text under indices that agree, on the shared variables, with those of
\* the language, word and romanization; and a condition that reaches its
\* required text nowhere leaves no entry.
C3_ConditionsConstrainEntries ==
    (TriplesReturned /\ patterns[4] # <<>>) =>
        LET sel == SelectedOfGroup(patterns, data)
        IN  /\ \A entry \in Range(returned) :
                   SomeCombination(sel, 1, <<>>, entry)
            /\ (\E i \in 1..Len(patterns[4]) : sel[i] = <<>>) =>
                   returned = <<>>

\* Two forms, both with a word, of which the condition keeps one.
C3_Witness ==
    /\ TriplesReturned
    /\ patterns = TaggedForms
    /\ Len(returned) = 1
    /\ Len(Selected(patterns[2], data, <<>>)) = 2
    /\ Len(Selected(patterns[4][1][1], data, <<PLURAL_TAG>>)) = 1

(***************************************************************************)
(* C4.                                                                     *)
(***************************************************************************)
\* Literal keys, then one variable segment.
EndsInOneVariable(p) ==
    LET segs == Segments(p)
    IN  /\ Len(p) = 2 * Len(segs) - 1
        /\ segs # <<>>
        /\ IsVariable(segs[Len(segs)])
        /\ \A i \in 1..(Len(segs) - 1) : ~IsVariable(segs[i])

\* The node the literal keys lead to: <<node>> or <<>>.
NodeOfVariable(p, d) ==
    Resolve(SubSeq(Segments(p), 1, Len(Segments(p)) - 1), d, <<>>)

TheVariable(p) == p[Len(p)]

\* The variable segment of the pattern is applied at a list.
VariableAtList(p, d) ==
    /\ EndsInOneVariable(p)
    /\ NodeOfVariable(p, d) # <<>>
    /\ NodeOfVariable(p, d)[1].t = "list"

ItemsOfVariable(p, d) == NodeOfVariable(p, d)[1].items

ValuesCalled == pc \in {"returned", "raised"} /\ queries = <<>>
                    /\ patterns = NoGroup

\* The results of the str items of a list from the i-th on, each bound to
\* its index in the list.
RECURSIVE StrItems(_, _, _)
StrItems(v, items, i) ==
    IF i > Len(items) THEN <<>>
    ELSE (IF items[i].t = "str"
          THEN <<[value |-> items[i].s, bindings |-> (v :> (i - 1))]>>
          ELSE <<>>)
         \o StrItems(v, items, i + 1)

\* C4: a single variable segment V applied at a list returns, in list
\* order, one result per str item, bound to that item's index in the list
\* (so n results with V = 0..n-1 when all n items are str); an item that is
\* not a str gives no result and shifts no index.
C4_SingleVariableOverList ==
    (ValuesCalled /\ VariableAtList(pattern, data)) =>
        LET items == ItemsOfVariable(pattern, data)
            V == TheVariable(pattern)
        IN  /\ raised = ""
            /\ returned = StrItems(V, items, 1)
            /\ (\A i \in 1..Len(items) : items[i].t = "str") =>
                   /\ Len(returned) = Len(items)
                   /\ \A i \in 1..Len(returned) :
                          returned[i].bindings = (V :> (i - 1))

\* The first item is dropped and the second keeps index 1.
C4_Witness ==
    /\ ValuesCalled
    /\ VariableAtList(pattern, data)
    /\ LET items == ItemsOfVariable(pattern, data)
       IN  /\ Len(items) = 2
           /\ items[1].t # "str"
           /\ items[2].t = "str"
           /\ returned = <<[value |-> items[2].s,
                            bindings |-> (TheVariable(pattern) :> 1)]>>

(***************************************************************************)
(* C5.                                                                     *)
(***************************************************************************)
NoVariable(p) == \A i \in 1..Len(p) : ~IsVariable(p[i])

\* C5: a pattern without a variable segment returns at most one result,
\* with an empty environment, on every document.
C5_NoVariableAtMostOne ==
    (ValuesCalled /\ NoVariable(pattern)) =>
        /\ raised = ""
        /\ Len(returned) <= 1
        /\ \A i \in 1..Len(returned) : returned[i].bindings = <<>>

\* A pattern of two keys that finds its value.
C5_Witness ==
    /\ ValuesCalled
    /\ NoVariable(pattern)
    /\ Len(pattern) = 3
    /\ Len(returned) = 1

(***************************************************************************)
(* C6.                                                                     *)
(***************************************************************************)
RepeatsVariable(p) ==
    \E i, j \in 1..Len(p) : i < j /\ IsVariable(p[i]) /\ p[i] = p[j]

\* C6: a pattern with one variable in two segments aborts, whatever the
\* document.
C6_RepeatedVariableAborts ==
    (ValuesCalled /\ RepeatsVariable(pattern)) => raised = "AssertionError"

\* The assertion does fail on a document that leads to the second segment.
C6_Witness ==
    /\ ValuesCalled
    /\ RepeatsVariable(pattern)
    /\ raised = "AssertionError"

(***************************************************************************)
(* C7.                                                                     *)
(***************************************************************************)
\* C7: the empty pattern ends at the root: one result for a str root (its
\* value, the empty environment), none for another root.
C7_EmptyPatternEndsAtRoot ==
    (ValuesCalled /\ pattern = <<>>) =>
        /\ raised = ""
        /\ returned = IF data.t = "str"
                      THEN <<[value |-> data.s, bindings |-> <<>>]>>
                      ELSE <<>>

(***************************************************************************)
(* C9.                                                                     *)
(***************************************************************************)
\* The entries of the combinations the patterns of a group denote.
DenotedEntries(group, d, ipa) ==
    ValidEntries(NaiveJoin(SelectedOfGroup(group, d), 1, <<>>), ipa)

\* C9: on a configured group search_triples does not raise, whatever the
\* shape of the document; a branch that meets a node of the wrong shape
\* yields nothing and the others yield what they denote; a group with a
\* pattern the document cannot satisfy returns no entry.
C9_ConfiguredGroupsNeverRaise ==
    (patterns \in ConfiguredGroups /\ pc # "search_triples") =>
        LET sel == SelectedOfGroup(patterns, data)
        IN  /\ pc = "returned" /\ raised = ""
            /\ returned = DenotedEntries(patterns, data, is_ipa)
            /\ (\E i \in 1..Len(sel) : sel[i] = <<>>) => returned = <<>>

\* One form is not an object and the other still gives its entry.
C9_Witness ==
    /\ TriplesReturned
    /\ patterns \in ConfiguredGroups
    /\ Len(Reached(patterns[2], data)) = 1
    /\ \E r \in Range(Reached(<<"forms", "/", "N">>, data)) :
           r.node.t \notin {"dict", "str"}
    /\ Len(returned) = 1

(***************************************************************************)
(* C10.                                                                    *)
(***************************************************************************)
\* The nodes warned about when a pattern is evaluated: those it ends at
\* that are not a str, except None when silent.
WarnedNodes(p, d, silent) ==
    LET ends == SelectSeq(Reached(p, d), LAMBDA r :
                    /\ r.node.t # "str"
                    /\ ~(silent /\ r.node.t = "none"))
    IN  [i \in 1..Len(ends) |-> ends[i].node]

RECURSIVE WarnedByConditions(_, _, _)
WarnedByConditions(group, d, i) ==
    IF i > Len(group[4]) THEN <<>>
    ELSE WarnedNodes(group[4][i][1], d, FALSE)
         \o WarnedByConditions(group, d, i + 1)

\* Only the language is evaluated silently.
WarnedByGroup(group, d) ==
    WarnedByConditions(group, d, 1)
    \o WarnedNodes(group[1], d, TRUE)
    \o WarnedNodes(group[2], d, FALSE)
    \o WarnedNodes(group[3], d, FALSE)

\* C10: search_triples warns once per node, not a str, that a pattern ends
\* at, except for a None the language pattern ends at; and no entry is
\* made of such a node.
C10_WarningsOfNonStrings ==
    TriplesReturned =>
        /\ warnings = WarnedByGroup(patterns, data)
        /\ \A entry \in Range(returned) :
               \E l \in Range(Selected(patterns[1], data, <<>>)),
                  w \in Range(Selected(patterns[2], data, <<>>)),
                  r \in Range(Selected(patterns[3], data, <<>>)) :
                   entry = EntryOf(<<l.value, w.value, r.value>>)

\* A None language code: no warning, no entry.
C10_WitnessSilent ==
    /\ TriplesReturned
    /\ \E r \in Range(Reached(patterns[1], data)) : r.node.t = "none"
    /\ warnings = <<>>
    /\ returned = <<>>

(***************************************************************************)
(* C11.                                                                    *)
(***************************************************************************)
\* The node the segments lead to when each variable segment is read from
\* the environment b: <<node>>, or <<>> when b does not bind the variable,
\* the index is not one of the list, or the path does not exist.
RECURSIVE Follows(_, _, _)
Follows(segs, node, b) ==
    IF segs = <<>> THEN <<node>>
    ELSE IF IsVariable(Head(segs))
    THEN IF /\ Head(segs) \in DOMAIN b
            /\ node.t = "list"
            /\ b[Head(segs)] \in 0..(Len(node.items) - 1)
         THEN Follows(Tail(segs), node.items[b[Head(segs)] + 1], b)
         ELSE <<>>
    ELSE IF node.t = "dict" /\ Head(segs) \in DOMAIN node.fields
         THEN Follows(Tail(segs), node.fields[Head(segs)], b)
         ELSE <<>>

\* Every result binds the variable segments of the pattern and nothing
\* else, each to an index of the list it stands for on the way to the value.
BindsThePatternVariables(rs, p, d) ==
    \A j \in 1..Len(rs) :
        /\ DOMAIN rs[j].bindings = Range(VariablesOf(p))
        /\ Follows(Split(p), d, rs[j].bindings) = <<Str(rs[j].value)>>

\* The results of the patterns are at hand: consolidate_results is about
\* to be called, or was.
ResultsAtHand ==
    /\ queries # <<>>
    /\ pc \in {"consolidate_results", "returned", "raised"}
    /\ Len(results) = Len(queries)

\* C11: the results of one call of search_values on a pattern that repeats
\* no variable all bind exactly the variable segments of the pattern, each
\* to an index of the list it was bound at; so the variables
\* consolidate_results reads from the first result of an input are those
\* of every result of that input, and no lookup of the shared variables,
\* while the indices are built or while they are walked, misses a key.
C11_ResultsBindThePatternVariables ==
    /\ (ValuesCalled /\ pc = "returned" /\ ~RepeatsVariable(pattern)) =>
           BindsThePatternVariables(returned, pattern, data)
    /\ ResultsAtHand =>
           /\ \A i \in 1..Len(results) :
                  /\ ~RepeatsVariable(queries[i]) =>
                         BindsThePatternVariables(results[i], queries[i],
                                                  data)
                  /\ results[i] # <<>> =>
                         \A r \in Range(results[i]) :
                             DOMAIN r.bindings
                                 = PositionVariables(results, i)
           /\ ~SomeEmpty(results) =>
                  \A i \in 1..Len(results) : ~IndexRaises(results, i)
           /\ raised # "KeyError"

\* Two patterns that share a variable, the second with two variables and
\* several results, joined into some combination.
C11_Witness ==
    /\ ResultsAtHand
    /\ pc = "returned"
    /\ Len(results) >= 2
    /\ Len(results[2]) >= 2
    /\ Len(VariablesOf(queries[2])) = 2
    /\ Intersection(results, 2) # <<>>
    /\ \E r1, r2 \in Range(results[2]) : r1.bindings # r2.bindings
    /\ returned # <<>>

====
